---- MODULE Spec2Model ----
(***************************************************************************)
(* Model of src/src/App.tsx: the card-trick component.                     *)
(*                                                                         *)
(* A Card object is a record [suit, value, image, ref]; ref stands for the *)
(* identity of the JavaScript object, so record equality is `===`.         *)
(* Array indices of the source are 0-based; sequences here are 1-based,    *)
(* so cards[k] of the source is cs[k+1] here.  Canonical positions,        *)
(* Lehmer counts and `used` keep the source's 0-based values.              *)
(***************************************************************************)
EXTENDS Integers, Sequences, FiniteSets, TLC

VARIABLES deck, selectedCards, reorderedCards, gamePhase, isLoading,
          showHiddenCard, lastPermNumber, lastEvent, argCards, results

appVars == <<deck, selectedCards, reorderedCards, gamePhase, isLoading, showHiddenCard>>

pureVars == <<argCards, results>>

vars == <<deck, selectedCards, reorderedCards, gamePhase, isLoading,
          showHiddenCard, lastPermNumber, lastEvent, argCards, results>>

(***************************************************************************)
(* Bounds.                                                                 *)
(***************************************************************************)
\* number of card images present under ./assets (size of the loaded deck)
NumAssets == 6

\* number of Card objects the inputs of getPermutationNumber are drawn from
PoolSize == 6

\* longest input array handed to getPermutationNumber
MaxInputLen == 4

\* with a complete deck, only the cards at the first MaxClickPos places of
\* the deck grid are clicked
MaxClickPos == 5

(***************************************************************************)
(* Cards.                                                                  *)
(***************************************************************************)
Range(s) == {s[i] : i \in DOMAIN s}

\* imageName = `${suit}${value.toString().padStart(2, '0')}.png`
imageName(suit, value) == <<suit, value \div 10, value % 10, ".png">>

newCard(suit, value, ref) ==
    [suit |-> suit, value |-> value, image |-> imageName(suit, value), ref |-> ref]

\* absence of a card argument in lastEvent
NoCard == [suit |-> "none", value |-> 0, image |-> <<"none", 0, 0, ".png">>, ref |-> 0]

\* const suits = ['clubs', 'diamonds', 'hearts', 'spades']
suits == <<"clubs", "diamonds", "hearts", "spades">>

loadOrderStopsAtTwelve ==
    [k \in 1..48 |-> <<suits[((k - 1) \div 12) + 1], ((k - 1) % 12) + 1>>]

\* the (suit, value) pairs in the order the loader visits them
loadOrder == [k \in 1..52 |-> <<suits[((k - 1) \div 13) + 1], ((k - 1) % 13) + 1>>]

\* the `cards` array the effect builds when the images named in `assets` exist
buildCards(assets) ==
    LET present == SelectSeq(loadOrder, LAMBDA p : imageName(p[1], p[2]) \in assets)
    IN  [k \in DOMAIN present |-> newCard(present[k][1], present[k][2], k)]

AllImages == {imageName(loadOrder[k][1], loadOrder[k][2]) : k \in 1..52}

\* the 52 Card objects of a complete deck
AllCards == Range(buildCards(AllImages))

\* images assumed present, in order of inclusion as NumAssets grows
AssetList ==
    << <<"diamonds", 7>>, <<"spades", 12>>, <<"clubs", 3>>, <<"hearts", 2>>,
       <<"spades", 13>>, <<"clubs", 1>>, <<"hearts", 9>>, <<"diamonds", 1>>,
       <<"spades", 1>>, <<"clubs", 13>> >>

Assets == {imageName(AssetList[k][1], AssetList[k][2]) : k \in 1..NumAssets}

\* the complete asset directory: one image for each suit and each value 1..13
FullAssets ==
    {imageName(suit, value) : suit \in {"spades", "clubs", "hearts", "diamonds"}, value \in 1..13}

\* Card objects getPermutationNumber is exercised on; the 6th is a second
\* object with the suit and value of the 2nd
PoolList ==
    << newCard("diamonds", 7, 1), newCard("spades", 12, 2), newCard("clubs", 3, 3),
       newCard("hearts", 2, 4), newCard("spades", 13, 5), newCard("spades", 12, 6),
       newCard("clubs", 1, 7), newCard("hearts", 13, 8), newCard("diamonds", 13, 9) >>

Pool == {PoolList[k] : k \in 1..PoolSize}

(***************************************************************************)
(* Pure functions.                                                         *)
(***************************************************************************)
suitOrderSwapped ==
    [s \in {"spades", "clubs", "hearts", "diamonds"} |->
        CASE s = "spades" -> 1 [] s = "clubs" -> 0 [] s = "hearts" -> 2 [] s = "diamonds" -> 3]

suitOrder ==
    [s \in {"spades", "clubs", "hearts", "diamonds"} |->
        CASE s = "spades" -> 0 [] s = "clubs" -> 1 [] s = "hearts" -> 2 [] s = "diamonds" -> 3]

getCardNumber(card) == card.value + (suitOrder[card.suit] * 13)

RECURSIVE factorialOffByOne(_)
factorialOffByOne(n) == IF n <= 2 THEN 1 ELSE n * factorialOffByOne(n - 1)

RECURSIVE factorial(_)
factorial(n) == IF n <= 1 THEN 1 ELSE n * factorial(n - 1)

\* Array.prototype.sort((a, b) => a.number - b.number): stable, ascending.
\* sortPos is the 1-based place items[i] ends up at.
sortPos(items, i) ==
    1 + Cardinality({j \in DOMAIN items :
                        \/ items[j].number < items[i].number
                        \/ (items[j].number = items[i].number /\ j < i)})

sortByNumberDescending(items) ==
    [k \in DOMAIN items |->
        items[CHOOSE i \in DOMAIN items : sortPos(items, i) = Len(items) + 1 - k]]

sortByNumber(items) ==
    [k \in DOMAIN items |-> items[CHOOSE i \in DOMAIN items : sortPos(items, i) = k]]

\* cards.map((card, idx) => ({card, number, originalIndex: idx}))
cardData(cs) ==
    [idx \in DOMAIN cs |->
        [card |-> cs[idx], number |-> getCardNumber(cs[idx]), originalIndex |-> idx - 1]]

\* sorted.findIndex(item => item.card === card), 0-based, -1 when absent
findIndex(sorted, card) ==
    IF \E k \in DOMAIN sorted : sorted[k].card = card
    THEN (CHOOSE k \in DOMAIN sorted :
             /\ sorted[k].card = card
             /\ \A m \in DOMAIN sorted : sorted[m].card = card => k <= m) - 1
    ELSE -1

\* originalOrder: the sorted position (A=0 .. D=3) of each card, in input order
originalOrder(cs) ==
    [i \in DOMAIN cs |-> findIndex(sortByNumber(cardData(cs)), cs[i])]

RECURSIVE lehmerLoopCountsUpToValue(_, _, _, _)
lehmerLoopCountsUpToValue(order, i, used, acc) ==
    IF i >= 4 THEN acc
    ELSE LET value == order[i + 1]
             count == Cardinality({j \in 0..value : ~used[j]})
         IN  lehmerLoopCountsUpToValue(order, i + 1, [used EXCEPT ![value] = TRUE],
                                       acc + count * factorial(3 - i))

RECURSIVE lehmerLoopNoUsed(_, _, _, _)
lehmerLoopNoUsed(order, i, used, acc) ==
    IF i >= 4 THEN acc
    ELSE LET value == order[i + 1]
             count == Cardinality({j \in 0..(value - 1) : TRUE})
         IN  lehmerLoopNoUsed(order, i + 1, used, acc + count * factorial(3 - i))

\* the for-loop over i = 0..3; acc is permNumber
RECURSIVE lehmerLoop(_, _, _, _)
lehmerLoop(order, i, used, acc) ==
    IF i >= 4 THEN acc
    ELSE LET value == order[i + 1]
             count == Cardinality({j \in 0..(value - 1) : ~used[j]})
         IN  lehmerLoop(order, i + 1, [used EXCEPT ![value] = TRUE],
                        acc + count * factorial(3 - i))

\* the values `count` takes in the iterations i, i+1, .. 3 of the for-loop
RECURSIVE lehmerCounts(_, _, _)
lehmerCounts(order, i, used) ==
    IF i >= 4 THEN <<>>
    ELSE LET value == order[i + 1]
             count == Cardinality({j \in 0..(value - 1) : ~used[j]})
         IN  <<count>> \o lehmerCounts(order, i + 1, [used EXCEPT ![value] = TRUE])

getPermutationNumber(cs) ==
    IF Len(cs) # 4 THEN 0
    ELSE lehmerLoop(originalOrder(cs), 0, [j \in 0..3 |-> FALSE], 1)

(***************************************************************************)
(* Component state.                                                        *)
(*                                                                         *)
(* lastPermNumber records the local const permNumber of the handleReorder  *)
(* call that produced the current reorderedCards (0 when there is none).   *)
(* lastEvent records the handler invoked last, its argument and the phase  *)
(* it was invoked in.                                                      *)
(***************************************************************************)
event(op, card) == [op |-> op, card |-> card, phase |-> gamePhase]

\* useState initial values (lines 13-18)
InitApp ==
    /\ deck = <<>>
    /\ selectedCards = <<>>
    /\ reorderedCards = <<>>
    /\ gamePhase = "selection"
    /\ isLoading = TRUE
    /\ showHiddenCard = FALSE
    /\ lastPermNumber = 0
    /\ lastEvent = event("init", NoCard)

InitPure ==
    /\ argCards = <<>>
    /\ results = <<>>

Init == InitApp /\ InitPure

Reverse(s) == [k \in DOMAIN s |-> s[Len(s) + 1 - k]]

\* arr.sort(() => Math.random() - 0.5): the comparator's random signs are the
\* input.  The model draws two outcomes: every comparison answers "keep"
\* (the order is unchanged) or every comparison answers "swap" (reversed).
shuffled(arr) == {arr, Reverse(arr)}

\* the effect that runs once after the first render, with the images `assets`
loadDeckFrom(assets) ==
    /\ isLoading
    /\ deck' \in shuffled(buildCards(assets))
    /\ isLoading' = FALSE
    /\ lastEvent' = event("useEffect", NoCard)
    /\ UNCHANGED <<selectedCards, reorderedCards, gamePhase, showHiddenCard,
                   lastPermNumber, pureVars>>

loadDeck == loadDeckFrom(Assets)

sameCard(c, d) == c.suit = d.suit /\ c.value = d.value

clickRejectedOnlyDuplicateTest(card) ==
    \E i \in DOMAIN selectedCards : sameCard(selectedCards[i], card)

clickRejectedNoDuplicateTest(card) ==
    \/ gamePhase # "selection"
    \/ Len(selectedCards) >= 5

clickRejectedOffByOne(card) ==
    \/ gamePhase # "selection"
    \/ Len(selectedCards) > 5
    \/ \E i \in DOMAIN selectedCards : sameCard(selectedCards[i], card)

\* the three early returns of handleCardClick
clickRejected(card) ==
    \/ gamePhase # "selection"
    \/ Len(selectedCards) >= 5
    \/ \E i \in DOMAIN selectedCards : sameCard(selectedCards[i], card)

handleCardClick(card) ==
    /\ IF clickRejected(card)
       THEN UNCHANGED selectedCards
       ELSE selectedCards' = Append(selectedCards, card)
    /\ lastEvent' = event("handleCardClick", card)
    /\ UNCHANGED <<deck, reorderedCards, gamePhase, isLoading, showHiddenCard,
                   lastPermNumber, pureVars>>

sortedCardsUnsorted(firstFour) == firstFour

\* lines 122-129: the four cards in ascending order of card number
sortedCards(firstFour) ==
    LET cardNumbers == [k \in DOMAIN firstFour |->
                           [card |-> firstFour[k], number |-> getCardNumber(firstFour[k])]]
        sorted == sortByNumber(cardNumbers)
    IN  [k \in DOMAIN sorted |-> sorted[k].card]

\* slice(0, 4)
firstFourOf(selected) == SubSeq(selected, 1, IF Len(selected) < 4 THEN Len(selected) ELSE 4)

\* the array handed to setReorderedCards (line 136)
reorderedOf(selected) == <<selected[5]>> \o sortedCards(firstFourOf(selected))

handleReorderKeepsReveal ==
    /\ IF Len(selectedCards) # 5
       THEN UNCHANGED <<reorderedCards, gamePhase, lastPermNumber>>
       ELSE /\ reorderedCards' = reorderedOf(selectedCards)
            /\ gamePhase' = "reordered"
            /\ lastPermNumber' = getPermutationNumber(firstFourOf(selectedCards))
    /\ lastEvent' = event("handleReorder", NoCard)
    /\ UNCHANGED <<deck, selectedCards, isLoading, showHiddenCard, pureVars>>

handleReorderNoLengthTest ==
    /\ IF Len(selectedCards) = 0
       THEN UNCHANGED <<reorderedCards, gamePhase, showHiddenCard, lastPermNumber>>
       ELSE /\ reorderedCards' = sortedCards(firstFourOf(selectedCards))
            /\ gamePhase' = "reordered"
            /\ showHiddenCard' = FALSE
            /\ lastPermNumber' = getPermutationNumber(firstFourOf(selectedCards))
    /\ lastEvent' = event("handleReorder", NoCard)
    /\ UNCHANGED <<deck, selectedCards, isLoading, pureVars>>

handleReorder ==
    /\ IF Len(selectedCards) # 5
       THEN UNCHANGED <<reorderedCards, gamePhase, showHiddenCard, lastPermNumber>>
       ELSE /\ reorderedCards' = reorderedOf(selectedCards)
            /\ gamePhase' = "reordered"
            /\ showHiddenCard' = FALSE
            /\ lastPermNumber' = getPermutationNumber(firstFourOf(selectedCards))
    /\ lastEvent' = event("handleReorder", NoCard)
    /\ UNCHANGED <<deck, selectedCards, isLoading, pureVars>>

handleResetKeepsReveal ==
    /\ selectedCards' = <<>>
    /\ reorderedCards' = <<>>
    /\ gamePhase' = "selection"
    /\ deck' \in shuffled(deck)
    /\ lastPermNumber' = 0
    /\ lastEvent' = event("handleReset", NoCard)
    /\ UNCHANGED <<showHiddenCard, isLoading, pureVars>>

handleReset ==
    /\ selectedCards' = <<>>
    /\ reorderedCards' = <<>>
    /\ gamePhase' = "selection"
    /\ showHiddenCard' = FALSE
    /\ deck' \in shuffled(deck)
    /\ lastPermNumber' = 0
    /\ lastEvent' = event("handleReset", NoCard)
    /\ UNCHANGED <<isLoading, pureVars>>

toggleOnlyHides ==
    /\ showHiddenCard' = FALSE
    /\ lastEvent' = event("toggle", NoCard)
    /\ UNCHANGED <<deck, selectedCards, reorderedCards, gamePhase, isLoading,
                   lastPermNumber, pureVars>>

\* onClick={() => setShowHiddenCard(!showHiddenCard)} (line 248)
toggleShowHiddenCard ==
    /\ showHiddenCard' = ~showHiddenCard
    /\ lastEvent' = event("toggle", NoCard)
    /\ UNCHANGED <<deck, selectedCards, reorderedCards, gamePhase, isLoading,
                   lastPermNumber, pureVars>>

(***************************************************************************)
(* Events as the rendered page offers them (lines 151-275): nothing is     *)
(* clickable while loading; the deck grid and the reorder button exist in  *)
(* phase 'selection' (the button only with 5 cards selected); the toggle   *)
(* and the reset button exist in phase 'reordered'.                        *)
(***************************************************************************)
ClickDeckCard ==
    /\ ~isLoading
    /\ gamePhase = "selection"
    /\ \E i \in DOMAIN deck : handleCardClick(deck[i])

ClickReorderButton ==
    /\ ~isLoading
    /\ gamePhase = "selection"
    /\ Len(selectedCards) = 5
    /\ handleReorder

ClickToggleButton ==
    /\ ~isLoading
    /\ gamePhase = "reordered"
    /\ toggleShowHiddenCard

ClickResetButton ==
    /\ ~isLoading
    /\ gamePhase = "reordered"
    /\ handleReset

Next ==
    \/ loadDeck
    \/ ClickDeckCard
    \/ ClickReorderButton
    \/ ClickToggleButton
    \/ ClickResetButton

Spec == Init /\ [][Next]_vars

(***************************************************************************)
(* The handlers invoked directly, in any state of the loaded component,    *)
(* so that only their own early returns guard them.  The toggle is an      *)
(* inline callback of the 'reordered' page and stays tied to it.           *)
(***************************************************************************)
CallHandleCardClick ==
    /\ ~isLoading
    /\ \E i \in DOMAIN deck : handleCardClick(deck[i])

CallHandleReorder ==
    /\ ~isLoading
    /\ handleReorder

CallHandleReset ==
    /\ ~isLoading
    /\ handleReset

NextHandlers ==
    \/ loadDeck
    \/ CallHandleCardClick
    \/ CallHandleReorder
    \/ CallHandleReset
    \/ ClickToggleButton

SpecHandlers == Init /\ [][NextHandlers]_vars

(***************************************************************************)
(* The page with the complete asset directory, so that the deck has all    *)
(* 52 cards.  Clicks are drawn from the first MaxClickPos places of the    *)
(* deck grid.                                                              *)
(***************************************************************************)
loadFullDeck == loadDeckFrom(FullAssets)

ClickFirstDeckCards ==
    /\ ~isLoading
    /\ gamePhase = "selection"
    /\ \E i \in DOMAIN deck : i <= MaxClickPos /\ handleCardClick(deck[i])

NextFullDeck ==
    \/ loadFullDeck
    \/ ClickFirstDeckCards
    \/ ClickReorderButton
    \/ ClickToggleButton
    \/ ClickResetButton

SpecFullDeck == Init /\ [][NextFullDeck]_vars

(***************************************************************************)
(* getPermutationNumber on its own: the input array is drawn from the      *)
(* arrays of at most MaxInputLen pool cards, and one step applies the      *)
(* function to it.                                                         *)
(***************************************************************************)
permInputs == UNION {[1..n -> Pool] : n \in 0..MaxInputLen}

InitPerm ==
    /\ InitApp
    /\ argCards \in permInputs
    /\ results = <<>>

applyGetPermutationNumber ==
    /\ results = <<>>
    /\ results' = <<getPermutationNumber(argCards)>>
    /\ UNCHANGED <<appVars, lastPermNumber, lastEvent, argCards>>

NextPerm == applyGetPermutationNumber

SpecPerm == InitPerm /\ [][NextPerm]_vars

(***************************************************************************)
(* getCardNumber on its own: two cards are drawn from the 52 of a complete *)
(* deck, and each step applies the function to the next of them.           *)
(***************************************************************************)
InitCardNumber ==
    /\ InitApp
    /\ argCards \in [1..2 -> AllCards]
    /\ results = <<>>

applyGetCardNumber ==
    /\ Len(results) < Len(argCards)
    /\ results' = Append(results, getCardNumber(argCards[Len(results) + 1]))
    /\ UNCHANGED <<appVars, lastPermNumber, lastEvent, argCards>>

NextCardNumber == applyGetCardNumber

SpecCardNumber == InitCardNumber /\ [][NextCardNumber]_vars

(***************************************************************************)
(* Properties.                                                             *)
(***************************************************************************)
\* four cards with pairwise distinct card numbers
DistinctFour(cs) ==
    /\ Len(cs) = 4
    /\ \A i, j \in 1..4 : i # j => getCardNumber(cs[i]) # getCardNumber(cs[j])

\* the 24 orderings of a four-card array
Orderings(cs) ==
    {[i \in 1..4 |-> cs[p[i]]] : p \in {q \in [1..4 -> 1..4] : \A a, b \in 1..4 : a # b => q[a] # q[b]}}

\* C1: for four cards with pairwise distinct card numbers, the number computed
\* for the input and for each of its 24 orderings lies in 1..24, no other
\* ordering gets the input's number, and the 24 orderings produce all of 1..24.
C1_RankIsBijection ==
    (results # <<>> /\ DistinctFour(argCards)) =>
        /\ results[1] \in 1..24
        /\ \A O \in Orderings(argCards) :
              /\ getPermutationNumber(O) \in 1..24
              /\ O # argCards => getPermutationNumber(O) # results[1]
        /\ {getPermutationNumber(O) : O \in Orderings(argCards)} = 1..24

C1_Witness ==
    /\ results = <<24>>
    /\ DistinctFour(argCards)

\* C3: position of O[i] in the ascending sort of the four cards (0-based)
C3_P(O, i) ==
    Cardinality({k \in 1..4 : getCardNumber(O[k]) < getCardNumber(O[i + 1])})

\* C3: number of positions below P[i] that are not among P[0..i-1]
C3_Count(O, i) ==
    Cardinality({q \in 0..(C3_P(O, i) - 1) : \A m \in 0..(i - 1) : C3_P(O, m) # q})

\* C3: for four cards with pairwise distinct card numbers the result is
\* 1 + count[0]*3! + count[1]*2! + count[2]*1! + count[3]*0!.
C3_LehmerRank ==
    (results # <<>> /\ DistinctFour(argCards)) =>
        results[1] = 1 + C3_Count(argCards, 0) * 6 + C3_Count(argCards, 1) * 2
                       + C3_Count(argCards, 2) * 1 + C3_Count(argCards, 3) * 1

C3_Witness ==
    /\ results # <<>>
    /\ DistinctFour(argCards)
    /\ C3_Count(argCards, 0) = 1
    /\ C3_Count(argCards, 1) = 2
    /\ C3_Count(argCards, 2) = 1

C4_Ordinal(suit) ==
    CASE suit = "spades" -> 0 [] suit = "clubs" -> 1 [] suit = "hearts" -> 2 [] suit = "diamonds" -> 3

\* C4: getCardNumber returns value + 13 * ordinal(suit), a number in 1..52;
\* two cards that differ in suit or value get different numbers; and every
\* number in 1..52 is the number of one of the 52 cards.
C4_CardNumberBijection ==
    /\ \A i \in DOMAIN results :
          /\ results[i] = argCards[i].value + 13 * C4_Ordinal(argCards[i].suit)
          /\ results[i] \in 1..52
    /\ (Len(results) = 2 /\ ~sameCard(argCards[1], argCards[2])) => results[1] # results[2]
    /\ \A n \in 1..52 : \E c \in AllCards : getCardNumber(c) = n
    /\ Cardinality({<<c.suit, c.value>> : c \in AllCards}) = 52

C4_Witness ==
    /\ results = <<13, 14>>
    /\ argCards[1].suit = "spades"
    /\ argCards[2].suit = "clubs"

\* the 5-card hands that can be selected from the deck
Hands == {h \in [1..5 -> Range(deck)] : \A a, b \in 1..5 : a # b => h[a] # h[b]}

\* C2: the four displayed cards determine the hidden card: every hand whose
\* commit displays the same four cards in the same order has the same hidden card.
C2_HiddenCardRecoverable ==
    gamePhase = "reordered" =>
        \A h \in Hands :
            SubSeq(reorderedOf(h), 2, 5) = SubSeq(reorderedCards, 2, 5)
                => reorderedOf(h)[1] = reorderedCards[1]

\* C5: handleReorder on a hand of 5 puts the 5th selected card first, then the
\* first four selected cards in ascending order of card number, enters phase
\* 'reordered' and hides the hidden card.
C5_ReorderResult ==
    [][(lastEvent'.op = "handleReorder" /\ Len(selectedCards) = 5) =>
          /\ Len(reorderedCards') = 5
          /\ reorderedCards'[1] = selectedCards[5]
          /\ {reorderedCards'[k] : k \in 2..5} = {selectedCards[k] : k \in 1..4}
          /\ \A k \in 2..4 : getCardNumber(reorderedCards'[k]) < getCardNumber(reorderedCards'[k + 1])
          /\ gamePhase' = "reordered"
          /\ showHiddenCard' = FALSE]_vars

C5_Witness ==
    /\ lastEvent.op = "handleReorder"
    /\ gamePhase = "reordered"
    /\ SubSeq(selectedCards, 1, 4) # SubSeq(reorderedCards, 2, 5)

\* C6: re-ranking the four displayed cards gives the permutation number that
\* handleReorder computed from the first four selected cards.
C6_RankRecoverable ==
    gamePhase = "reordered" =>
        getPermutationNumber(SubSeq(reorderedCards, 2, 5)) = lastPermNumber

\* C7: selectedCards never has more than 5 cards nor two cards of the same
\* suit and value.
C7_HandInvariant ==
    /\ Len(selectedCards) <= 5
    /\ \A i, j \in DOMAIN selectedCards :
          i # j => ~sameCard(selectedCards[i], selectedCards[j])

C7_Witness ==
    /\ Len(selectedCards) = 5
    /\ gamePhase = "selection"
    /\ lastEvent.op = "handleCardClick"
    /\ \A i \in DOMAIN selectedCards : ~sameCard(selectedCards[i], lastEvent.card)

\* C8: handleCardClick(card) appends card and changes nothing else when the
\* phase is 'selection', fewer than 5 cards are selected and none of them has
\* card's suit and value; otherwise it changes nothing.
C8_ClickFrame ==
    [][lastEvent'.op = "handleCardClick" =>
          IF /\ gamePhase = "selection"
             /\ Len(selectedCards) < 5
             /\ \A i \in DOMAIN selectedCards : ~sameCard(selectedCards[i], lastEvent'.card)
          THEN /\ selectedCards' = selectedCards \o <<lastEvent'.card>>
               /\ UNCHANGED <<deck, reorderedCards, gamePhase, isLoading, showHiddenCard>>
          ELSE UNCHANGED appVars]_vars

C8_Witness ==
    /\ lastEvent.op = "handleCardClick"
    /\ gamePhase = "selection"
    /\ Len(selectedCards) >= 2
    /\ selectedCards[Len(selectedCards)] = lastEvent.card

\* C9: handleReorder with fewer than 5 selected cards changes nothing, and
\* phase 'reordered' never holds with fewer than 5 selected cards.
C9_ReorderNeedsFive ==
    /\ [][(lastEvent'.op = "handleReorder" /\ Len(selectedCards) < 5) =>
             /\ UNCHANGED appVars
             /\ gamePhase' = "selection"
             /\ reorderedCards' = <<>>]_vars
    /\ [](gamePhase = "reordered" => Len(selectedCards) >= 5)

C9_Witness ==
    /\ lastEvent.op = "handleReorder"
    /\ Len(selectedCards) \in 1..4
    /\ gamePhase = "selection"
    /\ reorderedCards = <<>>

\* C10: handleReset always ends in phase 'selection' with no selected cards,
\* no reordered cards and the hidden card hidden.
C10_ResetResult ==
    [][lastEvent'.op = "handleReset" =>
          /\ gamePhase' = "selection"
          /\ selectedCards' = <<>>
          /\ reorderedCards' = <<>>
          /\ showHiddenCard' = FALSE]_vars

C10_Witness ==
    /\ lastEvent.op = "handleReset"
    /\ gamePhase = "selection"
    /\ selectedCards = <<>>
    /\ reorderedCards = <<>>
    /\ ~showHiddenCard

\* s and t hold the same objects, each as often
IsPermutationOf(s, t) ==
    /\ Len(s) = Len(t)
    /\ \A x \in Range(s) \cup Range(t) :
          Cardinality({i \in DOMAIN s : s[i] = x}) = Cardinality({i \in DOMAIN t : t[i] = x})

\* C11: once loaded, deck holds each of the 52 (suit, value) pairs exactly once;
\* handleReset replaces deck by a permutation of itself; card clicks, reorder
\* and toggle leave deck unchanged.
C11_DeckComplete ==
    /\ [](~isLoading =>
            /\ Len(deck) = 52
            /\ \A suit \in {"spades", "clubs", "hearts", "diamonds"} : \A value \in 1..13 :
                  Cardinality({i \in DOMAIN deck :
                                  deck[i].suit = suit /\ deck[i].value = value}) = 1)
    /\ [][/\ lastEvent'.op = "handleReset" => IsPermutationOf(deck', deck)
          /\ lastEvent'.op \in {"handleCardClick", "handleReorder", "toggle"} => deck' = deck]_vars

C11_Witness ==
    /\ ~isLoading
    /\ lastEvent.op = "handleReset"
    /\ Len(deck) = 52
    /\ deck # buildCards(FullAssets)

\* C12: the toggle fires only in phase 'reordered'; it negates showHiddenCard
\* and leaves gamePhase, selectedCards, reorderedCards and deck unchanged.
C12_ToggleFrame ==
    [][lastEvent'.op = "toggle" =>
          /\ gamePhase = "reordered"
          /\ showHiddenCard' = ~showHiddenCard
          /\ UNCHANGED <<gamePhase, selectedCards, reorderedCards, deck>>]_vars

\* after a toggle the card is hidden again: it was shown by an earlier toggle
C12_Witness ==
    /\ lastEvent.op = "toggle"
    /\ gamePhase = "reordered"
    /\ showHiddenCard = FALSE

isCard(card, suit, value) == card.suit = suit /\ card.value = value

\* the ordering O = [7 of diamonds, queen of spades, 3 of clubs, 2 of hearts]
C14_IsExample(cs) ==
    /\ Len(cs) = 4
    /\ isCard(cs[1], "diamonds", 7)
    /\ isCard(cs[2], "spades", 12)
    /\ isCard(cs[3], "clubs", 3)
    /\ isCard(cs[4], "hearts", 2)

\* C14: for O = [7 of diamonds, queen of spades, 3 of clubs, 2 of hearts] the
\* canonical positions are [3,0,1,2], the Lehmer counts [3,0,0,0], the result 19.
C14_ExampleRank ==
    (results # <<>> /\ C14_IsExample(argCards)) =>
        /\ originalOrder(argCards) = <<3, 0, 1, 2>>
        /\ lehmerCounts(originalOrder(argCards), 0, [j \in 0..3 |-> FALSE]) = <<3, 0, 0, 0>>
        /\ results = <<19>>

C14_Witness ==
    /\ results = <<19>>
    /\ C14_IsExample(argCards)

C15_IsExampleCard(card) ==
    \/ isCard(card, "clubs", 3)
    \/ isCard(card, "diamonds", 7)
    \/ isCard(card, "spades", 12)
    \/ isCard(card, "hearts", 2)

\* place of an example card in the order queen of spades, 3 of clubs,
\* 2 of hearts, 7 of diamonds
C15_Place(card) ==
    CASE isCard(card, "spades", 12) -> 1
      [] isCard(card, "clubs", 3) -> 2
      [] isCard(card, "hearts", 2) -> 3
      [] isCard(card, "diamonds", 7) -> 4

\* the numbers computed for the example cards order them as C15_Place does
C15_SortsAsStated ==
    (/\ Len(results) = 2
     /\ C15_IsExampleCard(argCards[1])
     /\ C15_IsExampleCard(argCards[2])) =>
        (results[1] < results[2] <=> C15_Place(argCards[1]) < C15_Place(argCards[2]))

\* C15 as stated: 3 of clubs is 14, 7 of diamonds 46, queen of spades 12,
\* 2 of hearts 28, and they sort as queen of spades, 3 of clubs, 2 of hearts,
\* 7 of diamonds.
C15_ExampleNumbersAsStated ==
    /\ \A i \in DOMAIN results :
          /\ isCard(argCards[i], "clubs", 3) => results[i] = 14
          /\ isCard(argCards[i], "diamonds", 7) => results[i] = 46
          /\ isCard(argCards[i], "spades", 12) => results[i] = 12
          /\ isCard(argCards[i], "hearts", 2) => results[i] = 28
    /\ C15_SortsAsStated

\* C15 (amended): 3 of clubs is 16, 7 of diamonds 46, queen of spades 12,
\* 2 of hearts 28, and they sort as queen of spades, 3 of clubs, 2 of hearts,
\* 7 of diamonds.
C15_ExampleNumbers ==
    /\ \A i \in DOMAIN results :
          /\ isCard(argCards[i], "clubs", 3) => results[i] = 16
          /\ isCard(argCards[i], "diamonds", 7) => results[i] = 46
          /\ isCard(argCards[i], "spades", 12) => results[i] = 12
          /\ isCard(argCards[i], "hearts", 2) => results[i] = 28
    /\ C15_SortsAsStated

C15_Witness ==
    /\ Len(results) = 2
    /\ isCard(argCards[1], "clubs", 3)
    /\ isCard(argCards[2], "hearts", 2)

\* four cards, no two of the same suit and value (hence no object twice)
C16_ValidInput(cs) ==
    /\ Len(cs) = 4
    /\ \A i, j \in 1..4 : i # j => ~sameCard(cs[i], cs[j])

\* C16: for an input that is not four cards with pairwise distinct identities
\* the result is not a number in 1..24.
C16_InvalidInputRejected ==
    (results # <<>> /\ ~C16_ValidInput(argCards)) => results[1] \notin 1..24

\* canonical positions of an ordering, as the sequence P[0..3]
C18_P(O) == [k \in 1..4 |-> C3_P(O, k - 1)]

C18_LexLess(p, q) ==
    \E k \in 1..4 : p[k] < q[k] /\ \A m \in 1..(k - 1) : p[m] = q[m]

\* C18: among the orderings of four cards with distinct numbers, P(O1) is
\* lexicographically below P(O2) exactly when O1 gets the smaller number; the
\* ascending ordering gets 1 and the descending ordering gets 24.
C18_LexicographicOrder ==
    (results # <<>> /\ DistinctFour(argCards)) =>
        /\ \A O \in Orderings(argCards) :
              /\ C18_LexLess(C18_P(argCards), C18_P(O)) <=> results[1] < getPermutationNumber(O)
              /\ C18_LexLess(C18_P(O), C18_P(argCards)) <=> getPermutationNumber(O) < results[1]
        /\ C18_P(argCards) = <<0, 1, 2, 3>> => results = <<1>>
        /\ C18_P(argCards) = <<3, 2, 1, 0>> => results = <<24>>

C18_Witness ==
    /\ results = <<1>>
    /\ DistinctFour(argCards)
    /\ C18_P(argCards) = <<0, 1, 2, 3>>

\* C17: in phase 'reordered' every event but handleReset leaves selectedCards,
\* reorderedCards and gamePhase unchanged, and only handleReset leaves the phase.
C17_ReorderedIsStable ==
    [][gamePhase = "reordered" =>
          /\ lastEvent'.op # "handleReset" => UNCHANGED <<selectedCards, reorderedCards, gamePhase>>
          /\ gamePhase' # "reordered" => lastEvent'.op = "handleReset"]_vars

C17_Witness ==
    /\ gamePhase = "reordered"
    /\ lastEvent.op = "handleCardClick"
    /\ lastEvent.phase = "reordered"
    /\ \A i \in DOMAIN selectedCards : ~sameCard(selectedCards[i], lastEvent.card)

\* C19: in phase 'reordered' selectedCards and reorderedCards have 5 cards,
\* reorderedCards is a permutation of selectedCards and starts with the 5th
\* selected card; in phase 'selection' reorderedCards is empty and
\* showHiddenCard is false.
C19_PhaseConsistency ==
    /\ gamePhase = "reordered" =>
          /\ Len(selectedCards) = 5
          /\ Len(reorderedCards) = 5
          /\ IsPermutationOf(reorderedCards, selectedCards)
          /\ reorderedCards[1] = selectedCards[5]
    /\ gamePhase = "selection" =>
          /\ reorderedCards = <<>>
          /\ showHiddenCard = FALSE

C19_Witness ==
    /\ gamePhase = "reordered"
    /\ showHiddenCard
    /\ reorderedCards # selectedCards
    /\ Len(reorderedCards) = 5

\* C20: handleReorder invoked in phase 'reordered' leaves selectedCards,
\* reorderedCards and gamePhase (and deck) as they are and sets showHiddenCard
\* to false; invoked right after another handleReorder it changes nothing.
C20_ReorderIdempotent ==
    [][(lastEvent'.op = "handleReorder" /\ gamePhase = "reordered") =>
          /\ UNCHANGED <<selectedCards, reorderedCards, gamePhase, deck, isLoading>>
          /\ showHiddenCard' = FALSE
          /\ lastEvent.op = "handleReorder" => UNCHANGED appVars]_vars

C20_Witness ==
    /\ lastEvent.op = "handleReorder"
    /\ lastEvent.phase = "reordered"
    /\ gamePhase = "reordered"
    /\ Len(selectedCards) = 5
    /\ ~showHiddenCard

====
